---- MODULE Spec2Model ----
(***************************************************************************)
(* Tank level monitor (ESP32, MicroPython): boot.py, main.py and the       *)
(* resilience loop of mqtt_tank_monitor.py as one sequential state         *)
(* machine.  Time is the device clock time.time() in whole seconds; it     *)
(* advances only in the code's time.sleep calls and in the broker connect, *)
(* which may block up to MQTT_CONNECT_TIMEOUT_SEC.  The network link, the  *)
(* broker and the sensor are the environment: every query of them is a     *)
(* nondeterministic choice.  Everything else the code does (a sensor read, *)
(* a publish, the arithmetic) takes well under a second and no time here.  *)
(***************************************************************************)
EXTENDS Integers, Sequences, FiniteSets, TLC

\* ---------------------------------------------------------------- constants
MAX_CONSECUTIVE_FAILURES == 10
RESTART_COOLDOWN_SEC == 60
MQTT_CONNECT_TIMEOUT_SEC == 10
measurement_interval == 5
publish_interval == 30
wifi_check_interval == 300
max_retries == 3
BOOT_DELAY_SEC == 2
RETRY_DELAY_SEC == 10
WIFI_ATTEMPT_TIMEOUT == 30
WIFI_RETRY_PAUSE == 5
INIT_WIFI_RETRIES == 3
CHECK_WIFI_RETRIES == 2
EXCEPTION_RESTART_DELAY == 10
WDT_TIMEOUT_SEC == 120
SENSOR_MIN_READING_MM == 0
SENSOR_MAX_READING_MM == 8000

\* ------------------------------------------------------------------- bounds
\* A behaviour is followed for MaxTime seconds after the first boot.
MaxTime == 120

\* The startup is followed for MaxStartupTime seconds after power-on.
MaxStartupTime == 150

\* The timer is followed for MaxWatchTime seconds after power-on.
MaxWatchTime == 130

\* An outage lasts at most MaxOutage seconds; after it the behaviour is
\* followed for RecoveryTime seconds.
MaxOutage == 60
RecoveryTime == 100
MaxFaultTime == 61

\* Depths up to MaxDepth inches are drawn (the reference tank is 44 high).
MaxDepth == 50

\* Sensor samples from -1 mm up to MaxSample mm are drawn.
MaxSample == 8001

\* calibrate_empty is asked for NumReadings measurements (calibrate.py asks
\* for 10).
NumReadings == 4

\* The link is seen to come up only at these remaining times of a 30 s wait
\* (5 s into the wait, or at its very end).
LinkUpAt == {WIFI_ATTEMPT_TIMEOUT - WIFI_RETRY_PAUSE, 0}

\* Values of the real-time clock when boot.py starts: 0 after power-on, or a
\* value retained from an earlier session (late enough for the first
\* connectivity health check to be due).
RtcAtBoot == {0, wifi_check_interval}

\* (variant: a broker connect that blocks for twice its timeout)
ConnectDurationsSlow == {0, 2 * MQTT_CONNECT_TIMEOUT_SEC}

\* How long a broker connect blocks: at once, or up to its timeout.
ConnectDurations == {0, MQTT_CONNECT_TIMEOUT_SEC}

VARIABLES
    pc,                   \* position of the single thread of control
    clock,                \* time.time()
    retry_count,          \* safe_main
    mqtt,                 \* self.mqtt: "none" | "unconnected" | "connected"
    shutdown_requested,   \* self.shutdown_requested
    last_publish,         \* self.last_publish
    last_wifi_check,      \* self.last_wifi_check
    consecutive_failures, \* monitor_loop local
    last_restart_time,    \* monitor_loop local
    current_time,         \* monitor_loop local (publish branch)
    wait_time,            \* monitor_loop local (cooldown)
    cw,                   \* frame of connect_wifi: attempt, budget, timeout, caller, result,
                          \* link (the last answer of wifi.isconnected())
    wdt_present,          \* the board has the hardware timer machine.WDT
    platform,             \* what is installed on the board: modules, configuration, timer health
    wdt_armed,            \* the hardware timer machine.WDT is running
    self_wdt,             \* self.wdt holds the timer (feed_watchdog acknowledges it)
    calc,                 \* one call of a pure function: its arguments and its result
    \* ---- history variables (observations, not program state)
    fault,                \* why the last startup attempt was abandoned ("none": it was not)
    init_ok,              \* which steps of Initializing succeeded
    sensor_fail_run,      \* failed sensor reads in a row in this run
    wifi_fail_run,        \* failed health checks in a row in this run
    pub_fail_run,         \* consecutive cycles, up to the last one, whose due publish ultimately failed
    trigger,              \* path that reached the ceiling: "none" | "sensor" | "wifi"
    exit_kind,            \* how the last run of monitor_loop ended
    since_forced,         \* seconds since the last forced restart (-1: none yet), capped
    since_sent,           \* seconds since the last delivered Reading of this run (-1: none), capped
    cyc,                  \* publish-related events of the current cycle
    last_pub,             \* the last call of publish_data
    run_stats,            \* reads / deliveries of this run while every operation succeeded
    since_feed,           \* seconds since the timer was armed or last acknowledged, capped
    shutdown_log,         \* the steps of shutdown() executed since monitor_loop was entered
    exit_at,              \* where the cycle stood when monitor_loop was left
    ran,                  \* a cycle of monitor_loop has started since the last boot
    env_good,             \* from now on link, broker and sensor answer well
    delivered,            \* a Reading was delivered since env_good
    horizon,              \* the behaviour is followed until elapsed = horizon
    elapsed               \* seconds since the first boot (since env_good, once it holds)

prog_vars == <<pc, clock, retry_count, mqtt, shutdown_requested, last_publish,
               last_wifi_check, consecutive_failures, last_restart_time,
               current_time, wait_time, cw, wdt_armed, self_wdt>>
env_vars == <<wdt_present, env_good, horizon, platform>>
hist_vars == <<init_ok, sensor_fail_run, wifi_fail_run, pub_fail_run, trigger,
               exit_kind, since_forced, since_sent, cyc, last_pub, run_stats,
               since_feed, shutdown_log, exit_at, ran, delivered, elapsed, fault>>
vars == <<prog_vars, env_vars, hist_vars, calc>>

\* ------------------------------------------------------------------ helpers
Min(a, b) == IF a <= b THEN a ELSE b

NoFrame == [attempt |-> 0, budget |-> 0, timeout |-> 0, caller |-> "none", result |-> FALSE,
            link |-> FALSE]
NoInit == [hardware |-> FALSE, link |-> FALSE, session |-> FALSE, announce |-> FALSE]
NoPub == [called |-> FALSE, client |-> FALSE, session |-> FALSE, attempted |-> FALSE,
          result |-> FALSE, sent_gap |-> -1, stamp_gap |-> -1]
NoStats == [all_ok |-> TRUE, reads_since_sent |-> -1, gap_reads |-> 0]
NotAllOk == [all_ok |-> FALSE, reads_since_sent |-> -1, gap_reads |-> 0]

\* A capped age: -1 stays -1, otherwise it grows by d up to cap.
Age(a, d, cap) == IF a < 0 THEN a ELSE Min(a + d, cap)

\* time passes: d seconds of time.sleep or of a blocking call
Elapse(d) ==
    /\ elapsed + d <= horizon
    /\ elapsed' = elapsed + d
    /\ since_forced' = Age(since_forced, d, RESTART_COOLDOWN_SEC)

TickClock(d) ==
    /\ Elapse(d)
    /\ clock' = clock + d

Tick(d) ==
    /\ TickClock(d)
    /\ since_sent' = Age(since_sent, d, publish_interval)

\* The watchdog over one step.  armed: the timer runs at the end of the step;
\* fed: the step acknowledges it; total: the seconds the step takes; after:
\* the seconds of them that follow its last acknowledgement.
WatchdogStep(armed, fed, total, after) ==
    since_feed' = IF ~armed THEN 0
                  ELSE IF fed THEN Min(after, WDT_TIMEOUT_SEC)
                  ELSE Min(since_feed + total, WDT_TIMEOUT_SEC)

\* feed_watchdog over one step: it acknowledges the timer only through self.wdt.
FeedWatchdog(total, after) == WatchdogStep(wdt_armed, self_wdt, total, after)

\* a step that does not acknowledge the timer
NoFeed(total) == WatchdogStep(wdt_armed, FALSE, total, 0)

\* ------------------------------------------------------------ the platform
\* What the board offers at import time and what config/config.json says about
\* transport security.  sensor_driver, mqtt_library, ssl_module: the module can
\* be imported; cfg_ssl: the 'ssl' key of the mqtt section ("absent": no key);
\* wdt_feed_ok: WDT.feed() returns (FALSE: it raises OSError).
Platforms ==
    [sensor_driver : BOOLEAN, mqtt_library : BOOLEAN, ssl_module : BOOLEAN,
     cfg_ssl : {"absent", "on", "off"}, wdt_feed_ok : BOOLEAN]

\* the board of the repository with every file uploaded and the template's
\* "ssl": true
ReferencePlatform ==
    [sensor_driver |-> TRUE, mqtt_library |-> TRUE, ssl_module |-> TRUE,
     cfg_ssl |-> "on", wdt_feed_ok |-> TRUE]

\* mqtt.get('ssl', True): transport security is asked for unless the key says
\* otherwise
SslEnabled(cfg) == cfg # "off"

\* (variant: a configuration that switches transport security off is accepted)
ValidateConfigAny(cfg) == TRUE

\* _validate_config on the 'ssl' key: ConfigError unless ssl is enabled
ValidateConfig(cfg) == SslEnabled(cfg)

\* Why main_application abandons an attempt, in the order of the code: the
\* first wdt.feed() raises; _load_configuration raises; a dependency flag is
\* False; init_hardware does not find the sensor on the bus (hw = FALSE).
StartupFault(p, wdt, hw) ==
    IF wdt /\ ~p.wdt_feed_ok THEN "watchdog"
    ELSE IF ~ValidateConfig(p.cfg_ssl) THEN "config"
    ELSE IF ~p.sensor_driver THEN "driver"
    ELSE IF ~p.mqtt_library THEN "library"
    ELSE IF ~hw THEN "sensor"
    ELSE "none"

\* no pure function has been called
NoCalc == [op |-> "none"]

\* ------------------------------------------------------------------- Init
\* power-on: the program state
Power ==
    /\ pc = "boot"
    /\ clock \in RtcAtBoot
    /\ retry_count = 0
    /\ mqtt = "none"
    /\ shutdown_requested = FALSE
    /\ last_publish = 0
    /\ last_wifi_check = 0
    /\ consecutive_failures = 0
    /\ last_restart_time = 0
    /\ current_time = 0
    /\ wait_time = 0
    /\ cw = NoFrame
    /\ wdt_armed = FALSE
    /\ self_wdt = FALSE
    /\ since_feed = 0
    /\ shutdown_log = <<>>
    /\ exit_at = "none"
    /\ ran = FALSE
    /\ init_ok = NoInit
    /\ sensor_fail_run = 0
    /\ wifi_fail_run = 0
    /\ pub_fail_run = 0
    /\ trigger = "none"
    /\ exit_kind = "none"
    /\ since_forced = -1
    /\ since_sent = -1
    /\ cyc = <<>>
    /\ last_pub = NoPub
    /\ run_stats = NoStats
    /\ elapsed = 0
    /\ fault = "none"

\* The board of the repository, the ESP32, has the hardware timer; the
\* behaviour is followed for MaxTime seconds.
Init ==
    /\ Power
    /\ wdt_present = TRUE
    /\ env_good = FALSE
    /\ delivered = FALSE
    /\ platform = ReferencePlatform
    /\ calc = NoCalc
    /\ horizon = MaxTime


\* ------------------------------------------------- machine.reset(), restart
\* RAM is cleared: every program variable is as after power-on.  The real-time
\* clock is platform state: it is retained over the reset or starts again at 0.
FreshRun ==
    /\ retry_count' = 0
    /\ fault' = "none"
    /\ mqtt' = "none"
    /\ shutdown_requested' = FALSE
    /\ last_publish' = 0
    /\ last_wifi_check' = 0
    /\ consecutive_failures' = 0
    /\ last_restart_time' = 0
    /\ current_time' = 0
    /\ wait_time' = 0
    /\ cw' = NoFrame
    /\ wdt_armed' = FALSE
    /\ self_wdt' = FALSE
    /\ since_feed' = 0
    /\ shutdown_log' = <<>>
    /\ exit_at' = "none"
    /\ ran' = FALSE
    /\ init_ok' = NoInit
    /\ sensor_fail_run' = 0
    /\ wifi_fail_run' = 0
    /\ pub_fail_run' = 0
    /\ trigger' = "none"
    /\ since_sent' = -1
    /\ cyc' = <<>>
    /\ last_pub' = NoPub
    /\ run_stats' = NoStats

\* monitor_loop (or __init__) is left for good: its locals, the frame of
\* connect_wifi and the per-cycle observations are dead.
RunOver ==
    /\ last_publish' = 0
    /\ last_wifi_check' = 0
    /\ consecutive_failures' = 0
    /\ last_restart_time' = 0
    /\ current_time' = 0
    /\ cw' = NoFrame
    /\ init_ok' = NoInit
    /\ sensor_fail_run' = 0
    /\ wifi_fail_run' = 0
    /\ pub_fail_run' = 0
    /\ cyc' = <<>>
    /\ last_pub' = NoPub
    /\ run_stats' = NoStats

\* -------------------------------------------------------------- environment
\* The answers of the environment to a query with the possible answers S: once
\* env_good holds, only the good one.
Answers(S) == IF env_good THEN S \cap {TRUE} ELSE S

\* User interrupts, stop requests and exceptions escaping an operation come
\* only while the environment is not yet good.
Disturbed == ~env_good

\* ------------------------------------------------------------------ boot.py
BootPy ==
    /\ pc = "boot"
    /\ Tick(BOOT_DELAY_SEC)
    /\ NoFeed(BOOT_DELAY_SEC)
    /\ pc' = "safe_main"
    /\ UNCHANGED <<retry_count, mqtt, shutdown_requested, last_publish, last_wifi_check,
                   consecutive_failures, last_restart_time, current_time, wait_time, cw,
                   wdt_armed, self_wdt,
                   init_ok, sensor_fail_run, wifi_fail_run, pub_fail_run, trigger,
                   exit_kind, cyc, last_pub, run_stats>>
    /\ UNCHANGED <<env_vars, calc, fault, shutdown_log, exit_at, ran, delivered>>

\* ------------------------------------------------------------------ main.py
\* the condition of safe_main's while loop
SafeMainLoops(n) == n < max_retries

\* safe_main: one pass of the retry loop.  main_application arms the watchdog
\* (when the board has one) and acknowledges it, then constructs
\* TankLevelMonitor; __init__ sets the fields (self.wdt = None), loads the
\* configuration, checks the dependencies and runs init_hardware, then calls
\* connect_wifi().  Each of these raises on failure, and so does a wdt.feed()
\* that fails: main_application returns False, safe_main counts the retry and
\* sleeps.
MainApplication ==
    /\ pc = "safe_main"
    /\ SafeMainLoops(retry_count)
    /\ \E hw \in Answers(BOOLEAN) :
         IF StartupFault(platform, wdt_present, hw) = "none"
         THEN /\ Tick(0)
              /\ WatchdogStep(wdt_present, TRUE, 0, 0)
              /\ pc' = "cw_attempt"
              /\ cw' = [attempt |-> 0, budget |-> INIT_WIFI_RETRIES, timeout |-> 0,
                        caller |-> "init", result |-> FALSE, link |-> FALSE]
              /\ init_ok' = [NoInit EXCEPT !.hardware = TRUE]
              /\ retry_count' = retry_count
              /\ fault' = "none"
         ELSE /\ Tick(RETRY_DELAY_SEC)
              /\ WatchdogStep(wdt_present, TRUE, RETRY_DELAY_SEC, RETRY_DELAY_SEC)
              /\ pc' = "safe_main"
              /\ cw' = NoFrame
              /\ init_ok' = NoInit
              /\ retry_count' = retry_count + 1
              /\ fault' = StartupFault(platform, wdt_present, hw)
    /\ wdt_armed' = wdt_present
    /\ self_wdt' = FALSE
    /\ mqtt' = "none"
    /\ shutdown_requested' = FALSE
    /\ last_publish' = 0
    /\ last_wifi_check' = 0
    /\ UNCHANGED <<consecutive_failures, last_restart_time, current_time, wait_time,
                   sensor_fail_run, wifi_fail_run, pub_fail_run, trigger, exit_kind,
                   cyc, last_pub, run_stats>>
    /\ UNCHANGED <<env_vars, calc, shutdown_log, exit_at, ran, delivered>>

\* KeyboardInterrupt during the time.sleep(10) that follows a failed run (here
\* at its start): the failure is already counted, the handler leaves the loop,
\* and the test after the loop enters recovery_mode when the count has reached
\* max_retries; then the REPL.
KeyboardInterruptInRetryDelay ==
    /\ Disturbed
    /\ pc = "safe_main"
    /\ SafeMainLoops(retry_count)
    /\ \E hw \in Answers(BOOLEAN) :
         /\ StartupFault(platform, wdt_present, hw) # "none"
         /\ fault' = StartupFault(platform, wdt_present, hw)
    /\ Tick(0)
    /\ WatchdogStep(wdt_present, TRUE, 0, 0)
    /\ retry_count' = retry_count + 1
    /\ pc' = "repl"
    /\ exit_kind' = IF retry_count + 1 >= max_retries THEN "recovery" ELSE "interrupt_retry"
    /\ RunOver
    /\ wdt_armed' = wdt_present
    /\ self_wdt' = FALSE
    /\ mqtt' = "none"
    /\ shutdown_requested' = FALSE
    /\ UNCHANGED <<wait_time, trigger>>
    /\ UNCHANGED <<env_vars, calc, shutdown_log, exit_at, ran, delivered>>

\* safe_main after max_retries failed runs: recovery_mode, then the REPL.
RecoveryMode ==
    /\ pc = "safe_main"
    /\ retry_count >= max_retries
    /\ Tick(0)
    /\ NoFeed(0)
    /\ pc' = "repl"
    /\ exit_kind' = "recovery"
    /\ RunOver
    /\ UNCHANGED <<retry_count, mqtt, shutdown_requested, wait_time, trigger,
                   wdt_armed, self_wdt>>
    /\ UNCHANGED <<env_vars, calc, fault, shutdown_log, exit_at, ran, delivered>>

\* ------------------------------------------------------------- connect_wifi
\* (variant: the for loop makes one pass less)
BudgetSpentEarly(attempt, budget) == attempt + 1 >= budget

\* range(max_retries) is exhausted
BudgetSpent(attempt, budget) == attempt >= budget

\* Head of the for loop: budget exhausted -> return False; link already up ->
\* return True; otherwise wifi.connect() and start the 30 s wait.
ConnectWifiAttempt ==
    /\ pc = "cw_attempt"
    /\ Tick(0)
    /\ NoFeed(0)
    /\ IF BudgetSpent(cw.attempt, cw.budget)
       THEN /\ pc' = "cw_done"
            /\ cw' = [cw EXCEPT !.result = FALSE]
       ELSE \E up \in Answers(BOOLEAN) :
              IF up
              THEN /\ pc' = "cw_done"
                   /\ cw' = [cw EXCEPT !.result = TRUE, !.link = TRUE]
              ELSE /\ pc' = "cw_wait"
                   /\ cw' = [cw EXCEPT !.timeout = WIFI_ATTEMPT_TIMEOUT]
    /\ UNCHANGED <<retry_count, mqtt, shutdown_requested, last_publish, last_wifi_check,
                   consecutive_failures, last_restart_time, current_time, wait_time,
                   wdt_armed, self_wdt,
                   init_ok, sensor_fail_run, wifi_fail_run, pub_fail_run, trigger,
                   exit_kind, cyc, last_pub, run_stats>>
    /\ UNCHANGED <<env_vars, calc, fault, shutdown_log, exit_at, ran, delivered>>

\* the answers of the link to a poll with the given time left
PollAnswers(timeout) ==
    IF env_good THEN {TRUE}
    ELSE IF timeout \in LinkUpAt THEN BOOLEAN ELSE {FALSE}

\* One evaluation of the wait loop's condition.  Link down and time left:
\* sleep(1), timeout -= 1, feed.  Otherwise the loop ends: link up -> feed,
\* return True; timed out -> sleep(5), feed, next attempt.  (The loop condition
\* and the test after the loop read the link at the same instant.)
ConnectWifiPoll ==
    /\ pc = "cw_wait"
    /\ \E up \in PollAnswers(cw.timeout) :
         IF ~up /\ cw.timeout > 0
         THEN /\ Tick(1)
              /\ FeedWatchdog(1, 0)
              /\ pc' = "cw_wait"
              /\ cw' = [cw EXCEPT !.timeout = @ - 1]
         ELSE IF up
         THEN /\ Tick(0)
              /\ FeedWatchdog(0, 0)
              /\ pc' = "cw_done"
              /\ cw' = [cw EXCEPT !.result = TRUE, !.link = TRUE]
         ELSE /\ Tick(WIFI_RETRY_PAUSE)
              /\ FeedWatchdog(WIFI_RETRY_PAUSE, 0)
              /\ pc' = "cw_attempt"
              /\ cw' = [cw EXCEPT !.attempt = @ + 1]
    /\ UNCHANGED <<retry_count, mqtt, shutdown_requested, last_publish, last_wifi_check,
                   consecutive_failures, last_restart_time, current_time, wait_time,
                   wdt_armed, self_wdt,
                   init_ok, sensor_fail_run, wifi_fail_run, pub_fail_run, trigger,
                   exit_kind, cyc, last_pub, run_stats>>
    /\ UNCHANGED <<env_vars, calc, fault, shutdown_log, exit_at, ran, delivered>>

\* ---------------------------------------------------------------- init_mqtt
\* Outcomes of init_mqtt: "ok" (connect returned), "connect_fail" (the client
\* object was created, connect raised), "setup_fail" (an exception before the
\* client object was created: ssl module missing, configuration, constructor).
InitMqttOutcomes == {"ok", "connect_fail", "setup_fail"}

\* the outcomes the broker and the configuration allow now
\* (import ssl raises inside the try of init_mqtt: it ends as "setup_fail")
BrokerOutcomes ==
    IF SslEnabled(platform.cfg_ssl) /\ ~platform.ssl_module THEN {"setup_fail"}
    ELSE IF env_good THEN {"ok"}
    ELSE InitMqttOutcomes

\* (variant: the session made by init_mqtt is not kept)
MqttAfterInitLost(m, outcome) ==
    IF m = "none" /\ outcome = "setup_fail" THEN "none" ELSE "unconnected"

\* (variant: init_mqtt leaves the existing session alone when it fails)
MqttAfterInitKept(m, outcome) == IF outcome = "ok" THEN "connected" ELSE m

\* self.mqtt after init_mqtt: an existing client is disconnected first; a new
\* client replaces it unless the exception came before its creation.
MqttAfterInit(m, outcome) ==
    IF outcome = "ok" THEN "connected"
    ELSE IF outcome = "connect_fail" THEN "unconnected"
    ELSE IF m = "none" THEN "none" ELSE "unconnected"

\* init_mqtt returns True only when connect returned.
InitMqttResult(outcome) == outcome = "ok"

\* The blocking time of init_mqtt: only a connect attempt blocks.
InitMqttDurations(outcome) == IF outcome = "setup_fail" THEN {0} ELSE ConnectDurations

\* init_mqtt acknowledges the watchdog when it starts and again when connect
\* has returned: the seconds since its last acknowledgement.
InitMqttUnfed(outcome, d) == IF InitMqttResult(outcome) THEN 0 ELSE d

\* ------------------------------------------- __init__ after connect_wifi()
\* The result of connect_wifi() is not read; init_mqtt() follows, its result is
\* not read; send_ha_discovery() acknowledges the watchdog, publishes the
\* announcement and swallows every exception.
InitAfterWifi ==
    /\ pc = "cw_done"
    /\ cw.caller = "init"
    /\ \E outcome \in BrokerOutcomes : \E d \in InitMqttDurations(outcome) :
       \E announced \in (IF outcome = "ok" THEN Answers(BOOLEAN) ELSE {FALSE}) :
         /\ Tick(d)
         /\ FeedWatchdog(d, 0)
         /\ mqtt' = MqttAfterInit(mqtt, outcome)
         /\ init_ok' = [init_ok EXCEPT !.link = cw.result,
                                       !.session = InitMqttResult(outcome),
                                       !.announce = announced]
         /\ run_stats' = IF cw.result /\ InitMqttResult(outcome) /\ announced
                         THEN run_stats ELSE NotAllOk
    /\ pc' = "handover"
    /\ cw' = NoFrame
    /\ UNCHANGED <<retry_count, shutdown_requested, last_publish, last_wifi_check,
                   consecutive_failures, last_restart_time,
                   current_time, wait_time, wdt_armed, self_wdt,
                   sensor_fail_run, wifi_fail_run,
                   pub_fail_run, trigger, exit_kind, cyc, last_pub>>
    /\ UNCHANGED <<env_vars, calc, fault, shutdown_log, exit_at, ran, delivered>>

\* main_application after the construction: monitor.wdt = wdt, wdt.feed(),
\* then monitor_loop, which sets its locals.
HandOver ==
    /\ pc = "handover"
    /\ Tick(0)
    /\ WatchdogStep(wdt_armed, TRUE, 0, 0)
    /\ self_wdt' = wdt_armed
    /\ pc' = "loop"
    /\ consecutive_failures' = 0
    /\ last_restart_time' = 0
    /\ UNCHANGED <<retry_count, mqtt, shutdown_requested, last_publish, last_wifi_check,
                   current_time, wait_time, cw, wdt_armed,
                   init_ok, sensor_fail_run, wifi_fail_run, pub_fail_run, trigger,
                   exit_kind, cyc, last_pub, run_stats>>
    /\ UNCHANGED <<env_vars, calc, fault, shutdown_log, exit_at, ran, delivered>>

\* ------------------------------------------------------------ monitor_loop
\* check_wifi_connection: the health check is due unless less than the
\* wifi_check interval has passed since the last one.
\* (variant: the link is evaluated in every cycle)
CheckDueAlways(now, last) == TRUE

CheckDue(now, last) == ~((now - last) < wifi_check_interval)

\* (variant: the publish condition with a strict comparison)
PublishDueStrict(now, last) == (now - last) > publish_interval

\* the publish condition of the loop
PublishDue(now, last) == (now - last) >= publish_interval

\* (variant: the ceiling reached one failure early)
CeilingReachedEarly(n) == n >= MAX_CONSECUTIVE_FAILURES - 1

\* the ceiling test of both failure branches
CeilingReached(n) == n >= MAX_CONSECUTIVE_FAILURES

\* The cooldown: the wait before machine.reset(), 0 when none.
CooldownWait(now, last_restart) ==
    IF now - last_restart < RESTART_COOLDOWN_SEC
    THEN RESTART_COOLDOWN_SEC - (now - last_restart)
    ELSE 0

\* A failure branch found the counter at the ceiling: compute the wait and go
\* to the cooldown sleep, or straight to the reset.
Escalate(path) ==
    /\ trigger' = path
    /\ wait_time' = CooldownWait(clock, last_restart_time)
    /\ pc' = IF CooldownWait(clock, last_restart_time) > 0 THEN "cooldown" ELSE "do_reset"

\* (variant: the stop flag is read before the sensor read as well)
StopCheckedBeforeRead == {"loop", "read"}

\* where the loop reads shutdown_requested: at the top of a cycle only
StopCheckedAt == {"loop"}

\* The stop flag found set: break, the finally clause (which runs shutdown()
\* only when the flag is not set), return; main_application returns True and
\* safe_main goes on to the REPL.
StopSeen ==
    /\ pc \in StopCheckedAt
    /\ shutdown_requested
    /\ Tick(0)
    /\ NoFeed(0)
    /\ pc' = "repl"
    /\ exit_kind' = "stop"
    /\ exit_at' = pc
    /\ RunOver
    /\ UNCHANGED <<retry_count, mqtt, shutdown_requested, wait_time, trigger,
                   wdt_armed, self_wdt>>
    /\ UNCHANGED <<env_vars, calc, fault, shutdown_log, ran, delivered>>

\* Top of a cycle after the stop check: feed, gc.collect, then
\* check_wifi_connection up to its link query.  A link found down enters
\* connect_wifi(max_retries=2), whose first pass finds the link down as well
\* and issues the connect.
LoopTop ==
    /\ pc = "loop"
    /\ ~shutdown_requested
    /\ Tick(0)
    /\ FeedWatchdog(0, 0)
    /\ cyc' = <<>>
    /\ ran' = TRUE
    /\ IF ~CheckDue(clock, last_wifi_check)
       THEN /\ pc' = "read"
            /\ UNCHANGED <<last_wifi_check, cw, wifi_fail_run, run_stats>>
       ELSE /\ last_wifi_check' = clock
            /\ \E up \in Answers(BOOLEAN) :
                 IF up
                 THEN /\ pc' = "read"
                      /\ wifi_fail_run' = 0
                      /\ UNCHANGED <<cw, run_stats>>
                 ELSE /\ pc' = "cw_wait"
                      /\ cw' = [attempt |-> 0, budget |-> CHECK_WIFI_RETRIES,
                                timeout |-> WIFI_ATTEMPT_TIMEOUT,
                                caller |-> "check", result |-> FALSE, link |-> FALSE]
                      /\ run_stats' = NotAllOk
                      /\ UNCHANGED wifi_fail_run
    /\ init_ok' = NoInit       \* the record of Initializing is kept until the first cycle starts
    /\ UNCHANGED <<retry_count, mqtt, shutdown_requested, last_publish,
                   consecutive_failures, last_restart_time, current_time, wait_time,
                   wdt_armed, self_wdt,
                   sensor_fail_run, pub_fail_run, trigger, exit_kind, last_pub>>
    /\ UNCHANGED <<env_vars, calc, fault, shutdown_log, exit_at, delivered>>

\* check_wifi_connection after connect_wifi returned, and the loop's branch on
\* its result.  Reconnected: init_mqtt(), the check passes.  Not reconnected:
\* the check fails, the loop counts a failure, and either escalates or sleeps
\* and starts the next cycle (the acknowledgement that CycleSleep makes before
\* this sleep comes at once after the one that ended connect_wifi).
CheckWifiReturn ==
    /\ pc = "cw_done"
    /\ cw.caller = "check"
    /\ cw' = NoFrame
    /\ IF cw.result
       THEN \E outcome \in BrokerOutcomes : \E d \in InitMqttDurations(outcome) :
              /\ Tick(d)
              /\ FeedWatchdog(d, InitMqttUnfed(outcome, d))
              /\ mqtt' = MqttAfterInit(mqtt, outcome)
              /\ cyc' = Append(cyc, IF InitMqttResult(outcome) THEN "rebuild_ok" ELSE "rebuild_fail")
              /\ wifi_fail_run' = 0
              /\ pc' = "read"
              /\ UNCHANGED <<consecutive_failures, wait_time, trigger, pub_fail_run>>
       ELSE /\ consecutive_failures' = consecutive_failures + 1
            /\ wifi_fail_run' = Min(wifi_fail_run + 1, MAX_CONSECUTIVE_FAILURES)
            /\ pub_fail_run' = 0
            /\ Tick(0)
            /\ NoFeed(0)
            /\ UNCHANGED <<mqtt, cyc>>
            /\ IF CeilingReached(consecutive_failures + 1)
               THEN Escalate("wifi")
               ELSE /\ pc' = "sleep"
                    /\ UNCHANGED <<wait_time, trigger>>
    /\ UNCHANGED <<retry_count, shutdown_requested, last_publish, last_wifi_check,
                   last_restart_time, current_time, wdt_armed, self_wdt,
                   init_ok, sensor_fail_run,
                   exit_kind, last_pub, run_stats>>
    /\ UNCHANGED <<env_vars, calc, fault, shutdown_log, exit_at, ran, delivered>>

\* read_tank_level (which acknowledges the watchdog) and the branch on its
\* result.  A Reading resets the counter and the loop takes the time for the
\* publish test; no Reading counts a failure and either escalates or goes on
\* to the sleep.
ReadSensor ==
    /\ pc = "read"
    /\ Tick(0)
    /\ FeedWatchdog(0, 0)
    /\ \E reading \in Answers(BOOLEAN) :
         IF reading
         THEN /\ consecutive_failures' = 0
              /\ sensor_fail_run' = 0
              /\ current_time' = clock
              /\ pc' = IF PublishDue(clock, last_publish) THEN "publish" ELSE "sleep"
              /\ pub_fail_run' = IF PublishDue(clock, last_publish) THEN pub_fail_run ELSE 0
              /\ run_stats' = IF run_stats.all_ok /\ run_stats.reads_since_sent >= 0
                              THEN [run_stats EXCEPT !.reads_since_sent = @ + 1]
                              ELSE run_stats
              /\ UNCHANGED <<wait_time, trigger>>
         ELSE /\ consecutive_failures' = consecutive_failures + 1
              /\ sensor_fail_run' = Min(sensor_fail_run + 1, MAX_CONSECUTIVE_FAILURES)
              /\ pub_fail_run' = 0
              /\ run_stats' = NotAllOk
              /\ UNCHANGED current_time
              /\ IF CeilingReached(consecutive_failures + 1)
                 THEN Escalate("sensor")
                 ELSE /\ pc' = "sleep"
                      /\ UNCHANGED <<wait_time, trigger>>
    /\ UNCHANGED <<retry_count, mqtt, shutdown_requested, last_publish, last_wifi_check,
                   last_restart_time, cw, wdt_armed, self_wdt, init_ok, wifi_fail_run,
                   exit_kind, cyc, last_pub>>
    /\ UNCHANGED <<env_vars, calc, fault, shutdown_log, exit_at, ran, delivered>>

\* ------------------------------------------------------------- publish_data
\* (variant: publish_data without its guard on the client object)
PublishAttemptsAlways(m) == TRUE

\* publish_data returns False at once for a missing client object (the loop
\* never passes a missing reading); otherwise it makes one publish attempt.
PublishAttempts(m) == m # "none"

\* The attempt can only succeed on a client whose connect returned; on any
\* other client object the socket write raises.
PublishOutcomes(m) == IF m = "connected" THEN Answers(BOOLEAN) ELSE {FALSE}

\* where the loop goes after each step of the publish branch
AfterFirstPublish(result) == IF result THEN "sleep" ELSE "rebuild"
AfterRebuild(result) == IF result THEN "retry" ELSE "sleep"
\* (variant: a failed retry starts another rebuild)
AfterRetryAgain(result) == IF result THEN "sleep" ELSE "rebuild"
AfterRetry(result) == "sleep"

\* (variant: the loop stamps last_publish after every call of publish_data)
LastPublishAfterAlways(result, now, last) == now

\* self.last_publish after a call of publish_data that returned result
LastPublishAfter(result, now, last) == IF result THEN now ELSE last

\* One call of publish_data from the loop and the loop's branch on its result:
\* on success last_publish takes the time read before the call.  is_retry tells
\* the retry (line 716) from the first call of the cycle (line 710).  The call
\* acknowledges the watchdog unless it returns at its guard.
PublishData(is_retry) ==
    /\ TickClock(0)
    /\ WatchdogStep(wdt_armed, self_wdt /\ PublishAttempts(mqtt), 0, 0)
    /\ \E result \in (IF PublishAttempts(mqtt) THEN PublishOutcomes(mqtt) ELSE {FALSE}) :
         /\ cyc' = Append(cyc, IF ~PublishAttempts(mqtt) THEN "pub_noattempt"
                               ELSE IF result THEN "pub_ok" ELSE "pub_fail")
         /\ last_pub' = [called |-> TRUE,
                         client |-> mqtt # "none",
                         session |-> mqtt = "connected",
                         attempted |-> PublishAttempts(mqtt),
                         result |-> result,
                         sent_gap |-> IF result THEN since_sent ELSE -1,
                         stamp_gap |-> IF result
                                       THEN Min(current_time - last_publish, publish_interval)
                                       ELSE -1]
         /\ pc' = IF is_retry THEN AfterRetry(result) ELSE AfterFirstPublish(result)
         /\ delivered' = (delivered \/ (env_good /\ result))
         /\ IF result
            THEN /\ last_publish' = LastPublishAfter(result, current_time, last_publish)
                 /\ since_sent' = 0
                 /\ pub_fail_run' = 0
                 /\ run_stats' = IF run_stats.all_ok
                                 THEN [run_stats EXCEPT !.reads_since_sent = 0,
                                                        !.gap_reads = IF run_stats.reads_since_sent >= 0
                                                                      THEN run_stats.reads_since_sent
                                                                      ELSE 0]
                                 ELSE run_stats
            ELSE /\ last_publish' = LastPublishAfter(result, current_time, last_publish)
                 /\ UNCHANGED since_sent
                 /\ pub_fail_run' = IF is_retry
                                    THEN Min(pub_fail_run + 1, MAX_CONSECUTIVE_FAILURES)
                                    ELSE pub_fail_run
                 /\ run_stats' = NotAllOk
    /\ UNCHANGED <<retry_count, mqtt, shutdown_requested, last_wifi_check,
                   consecutive_failures, last_restart_time, current_time, wait_time, cw,
                   wdt_armed, self_wdt,
                   init_ok, sensor_fail_run, wifi_fail_run, trigger, exit_kind>>
    /\ UNCHANGED <<env_vars, calc, fault, shutdown_log, exit_at, ran>>

\* the due publish of a cycle
FirstPublish ==
    /\ pc = "publish"
    /\ PublishData(FALSE)

\* the session rebuild after a failed publish
RebuildSession ==
    /\ pc = "rebuild"
    /\ \E outcome \in BrokerOutcomes : \E d \in InitMqttDurations(outcome) :
         /\ Tick(d)
         /\ FeedWatchdog(d, InitMqttUnfed(outcome, d))
         /\ mqtt' = MqttAfterInit(mqtt, outcome)
         /\ cyc' = Append(cyc, IF InitMqttResult(outcome) THEN "rebuild_ok" ELSE "rebuild_fail")
         /\ pc' = AfterRebuild(InitMqttResult(outcome))
         /\ pub_fail_run' = IF InitMqttResult(outcome) THEN pub_fail_run
                            ELSE Min(pub_fail_run + 1, MAX_CONSECUTIVE_FAILURES)
    /\ UNCHANGED <<retry_count, shutdown_requested, last_publish, last_wifi_check,
                   consecutive_failures, last_restart_time, current_time, wait_time, cw,
                   wdt_armed, self_wdt,
                   init_ok, sensor_fail_run, wifi_fail_run, trigger, exit_kind,
                   last_pub, run_stats>>
    /\ UNCHANGED <<env_vars, calc, fault, shutdown_log, exit_at, ran, delivered>>

\* the single retry after a successful rebuild
RetryPublish ==
    /\ pc = "retry"
    /\ PublishData(TRUE)

\* feed, then the sleep between two cycles
CycleSleep ==
    /\ pc = "sleep"
    /\ Tick(measurement_interval)
    /\ FeedWatchdog(measurement_interval, measurement_interval)
    /\ pc' = "loop"
    /\ current_time' = 0      \* dead after the publish branch
    /\ cyc' = <<>>
    /\ last_pub' = NoPub
    /\ UNCHANGED <<retry_count, mqtt, shutdown_requested, last_publish, last_wifi_check,
                   consecutive_failures, last_restart_time, wait_time, cw,
                   wdt_armed, self_wdt,
                   init_ok, sensor_fail_run, wifi_fail_run, pub_fail_run, trigger,
                   exit_kind, run_stats>>
    /\ UNCHANGED <<env_vars, calc, fault, shutdown_log, exit_at, ran, delivered>>

\* (variant: the cooldown wait acknowledges the timer up to its end)
CooldownSleepFed ==
    /\ pc = "cooldown"
    /\ Tick(wait_time)
    /\ FeedWatchdog(wait_time, 0)
    /\ pc' = "do_reset"
    /\ UNCHANGED <<retry_count, mqtt, shutdown_requested, last_publish, last_wifi_check,
                   consecutive_failures, last_restart_time, current_time, wait_time, cw,
                   wdt_armed, self_wdt,
                   init_ok, sensor_fail_run, wifi_fail_run, pub_fail_run, trigger,
                   exit_kind, cyc, last_pub, run_stats>>
    /\ UNCHANGED <<env_vars, calc, fault, shutdown_log, exit_at, ran, delivered>>

\* (variant: the cooldown sleep followed by the next cycle instead of the reset)
CooldownSleepSkipsReset ==
    /\ pc = "cooldown"
    /\ Tick(wait_time)
    /\ NoFeed(wait_time)
    /\ pc' = "loop"
    /\ UNCHANGED <<retry_count, mqtt, shutdown_requested, last_publish, last_wifi_check,
                   consecutive_failures, last_restart_time, current_time, wait_time, cw,
                   wdt_armed, self_wdt,
                   init_ok, sensor_fail_run, wifi_fail_run, pub_fail_run, trigger,
                   exit_kind, cyc, last_pub, run_stats>>
    /\ UNCHANGED <<env_vars, calc, fault, shutdown_log, exit_at, ran, delivered>>

\* time.sleep(wait_time) of the cooldown: one sleep, no acknowledgement
CooldownSleep ==
    /\ pc = "cooldown"
    /\ Tick(wait_time)
    /\ NoFeed(wait_time)
    /\ pc' = "do_reset"
    /\ UNCHANGED <<retry_count, mqtt, shutdown_requested, last_publish, last_wifi_check,
                   consecutive_failures, last_restart_time, current_time, wait_time, cw,
                   wdt_armed, self_wdt,
                   init_ok, sensor_fail_run, wifi_fail_run, pub_fail_run, trigger,
                   exit_kind, cyc, last_pub, run_stats>>
    /\ UNCHANGED <<env_vars, calc, fault, shutdown_log, exit_at, ran, delivered>>

\* the clock after a reset
ResetClock(c) == {c, 0}

\* machine.reset() of a failure branch: the forced restart
MachineReset ==
    /\ pc = "do_reset"
    /\ pc' = "boot"
    /\ clock' \in ResetClock(clock)
    /\ since_forced' = 0
    /\ UNCHANGED <<exit_kind, elapsed>>
    /\ FreshRun
    /\ UNCHANGED <<env_vars, calc, delivered>>

\* --------------------------------------------------------------- shutdown()
\* The offline publish of shutdown(): skipped without a client object; on a
\* client whose connect returned it goes out or raises; on any other client
\* object it raises.
OfflineOutcomes(m) ==
    IF m = "none" THEN {"skip"}
    ELSE IF m = "connected" THEN {"ok", "fail"}
    ELSE {"fail"}

\* The steps shutdown() executes.  The offline publish, the delay and the
\* disconnect share one try block: a publish that raises skips the disconnect.
\* The link teardown has a block of its own.
ShutdownSteps(offline) ==
    <<"shutdown">>
    \o (IF offline = "skip" THEN <<>>
        ELSE IF offline = "ok" THEN <<"offline_ok", "session_close">>
        ELSE <<"offline_fail">>)
    \o <<"link_down">>

\* self.mqtt after shutdown: the session is closed only when the disconnect
\* was reached.
MqttAfterShutdown(m, offline) == IF offline = "ok" THEN "unconnected" ELSE m

\* shutdown(): the flag, the offline publish, the disconnect, the link teardown
\* (its delay for the offline message is under a second)
Shutdown(offline) ==
    /\ shutdown_requested' = TRUE
    /\ mqtt' = MqttAfterShutdown(mqtt, offline)
    /\ shutdown_log' = shutdown_log \o ShutdownSteps(offline)

\* the places of the loop where time passes
LoopWaits == {"sleep", "cooldown", "cw_wait"}

\* A stop request: something outside the loop sets the flag the loop reads at
\* the top of a cycle.
StopRequest ==
    /\ Disturbed
    /\ pc \in LoopWaits
    /\ pc = "cw_wait" => cw.caller = "check"
    /\ ~shutdown_requested
    /\ Tick(0)
    /\ NoFeed(0)
    /\ shutdown_requested' = TRUE
    /\ UNCHANGED <<pc, retry_count, mqtt, last_publish, last_wifi_check,
                   consecutive_failures, last_restart_time, current_time, wait_time, cw,
                   wdt_armed, self_wdt,
                   init_ok, sensor_fail_run, wifi_fail_run, pub_fail_run, trigger,
                   exit_kind, cyc, last_pub, run_stats>>
    /\ UNCHANGED <<env_vars, calc, fault, shutdown_log, exit_at, ran, delivered>>

\* KeyboardInterrupt during a wait of monitor_loop: the handler runs shutdown(),
\* the finally clause finds the flag set, monitor_loop returns,
\* main_application returns True and safe_main goes on to the REPL.
KeyboardInterruptInLoop ==
    /\ Disturbed
    /\ pc \in LoopWaits
    /\ pc = "cw_wait" => cw.caller = "check"
    /\ Tick(0)
    /\ NoFeed(0)
    /\ pc' = "repl"
    /\ exit_kind' = "interrupt"
    /\ exit_at' = pc
    /\ \E offline \in OfflineOutcomes(mqtt) : Shutdown(offline)
    /\ RunOver
    /\ UNCHANGED <<retry_count, wait_time, trigger, wdt_armed, self_wdt>>
    /\ UNCHANGED <<env_vars, calc, fault, ran, delivered>>

\* KeyboardInterrupt while __init__ waits for the link: it passes through
\* main_application and ends safe_main's loop.
KeyboardInterruptInInit ==
    /\ Disturbed
    /\ pc = "cw_wait"
    /\ cw.caller = "init"
    /\ Tick(0)
    /\ NoFeed(0)
    /\ pc' = "repl"
    /\ exit_kind' = "interrupt_init"
    /\ RunOver
    /\ UNCHANGED <<retry_count, mqtt, shutdown_requested, wait_time, trigger,
                   wdt_armed, self_wdt>>
    /\ UNCHANGED <<env_vars, calc, fault, shutdown_log, exit_at, ran, delivered>>

\* (variant: the exception handler goes to its delay without shutdown())
LoopExceptionNoShutdown ==
    /\ Disturbed
    /\ \/ pc = "loop" /\ ~shutdown_requested
       \/ pc = "cw_wait" /\ cw.caller = "check" /\ cw.timeout = WIFI_ATTEMPT_TIMEOUT
    /\ Tick(0)
    /\ NoFeed(0)
    /\ pc' = "exc_wait"
    /\ exit_kind' = "exception"
    /\ exit_at' = IF pc = "loop" THEN "top_of_cycle" ELSE pc
    /\ RunOver
    /\ UNCHANGED <<retry_count, mqtt, shutdown_requested, shutdown_log, wait_time,
                   trigger, wdt_armed, self_wdt>>
    /\ UNCHANGED <<env_vars, calc, fault, ran, delivered>>

\* An exception inside the loop's try block (gc.collect or the link query
\* raising at the top of a cycle, wifi.connect raising in the health check):
\* the handler runs shutdown() and then sleeps.
LoopException ==
    /\ Disturbed
    /\ \/ pc = "loop" /\ ~shutdown_requested
       \/ pc = "cw_wait" /\ cw.caller = "check" /\ cw.timeout = WIFI_ATTEMPT_TIMEOUT
    /\ Tick(0)
    /\ NoFeed(0)
    /\ pc' = "exc_wait"
    /\ exit_kind' = "exception"
    /\ exit_at' = IF pc = "loop" THEN "top_of_cycle" ELSE pc
    /\ \E offline \in OfflineOutcomes(mqtt) : Shutdown(offline)
    /\ RunOver
    /\ UNCHANGED <<retry_count, wait_time, trigger, wdt_armed, self_wdt>>
    /\ UNCHANGED <<env_vars, calc, fault, ran, delivered>>

\* time.sleep(10), then machine.reset() of the exception handler
ExceptionRestart ==
    /\ pc = "exc_wait"
    /\ Elapse(EXCEPTION_RESTART_DELAY)
    /\ pc' = "boot"
    /\ clock' \in ResetClock(clock + EXCEPTION_RESTART_DELAY)
    /\ exit_kind' = "none"
    /\ FreshRun
    /\ UNCHANGED <<env_vars, calc, delivered>>

\* KeyboardInterrupt during the handler's time.sleep(10): it leaves the handler,
\* the finally clause finds the flag set, and it passes through
\* main_application to safe_main, which goes on to the REPL.
KeyboardInterruptInDelay ==
    /\ Disturbed
    /\ pc = "exc_wait"
    /\ Tick(0)
    /\ NoFeed(0)
    /\ pc' = "repl"
    /\ exit_kind' = "interrupt_delay"
    /\ UNCHANGED <<retry_count, mqtt, shutdown_requested, last_publish, last_wifi_check,
                   consecutive_failures, last_restart_time, current_time, wait_time, cw,
                   wdt_armed, self_wdt,
                   init_ok, sensor_fail_run, wifi_fail_run, pub_fail_run, trigger,
                   cyc, last_pub, run_stats>>
    /\ UNCHANGED <<env_vars, calc, fault, shutdown_log, exit_at, ran, delivered>>

\* An exception while __init__ waits for the link (wifi.connect raising):
\* main_application returns False, safe_main counts the retry and sleeps.
InitException ==
    /\ Disturbed
    /\ pc = "cw_wait"
    /\ cw.caller = "init"
    /\ cw.timeout = WIFI_ATTEMPT_TIMEOUT
    /\ Tick(RETRY_DELAY_SEC)
    /\ NoFeed(RETRY_DELAY_SEC)
    /\ pc' = "safe_main"
    /\ retry_count' = retry_count + 1
    /\ fault' = "exception"
    /\ cw' = NoFrame
    /\ init_ok' = NoInit
    /\ UNCHANGED <<mqtt, shutdown_requested, last_publish, last_wifi_check,
                   consecutive_failures, last_restart_time, current_time, wait_time,
                   wdt_armed, self_wdt,
                   sensor_fail_run, wifi_fail_run, pub_fail_run, trigger,
                   exit_kind, cyc, last_pub, run_stats>>
    /\ UNCHANGED <<env_vars, calc, shutdown_log, exit_at, ran, delivered>>

\* ------------------------------------------------------------- the watchdog
\* The REPL does not acknowledge the timer, and a running machine.WDT cannot
\* be stopped: WDT_TIMEOUT_SEC after the last acknowledgement the hardware
\* resets the device.
WatchdogResetInRepl ==
    /\ pc = "repl"
    /\ wdt_armed
    /\ Elapse(WDT_TIMEOUT_SEC - since_feed)
    /\ pc' = "boot"
    /\ clock' \in ResetClock(clock + (WDT_TIMEOUT_SEC - since_feed))
    /\ exit_kind' = "none"
    /\ FreshRun
    /\ UNCHANGED <<env_vars, calc, delivered>>

\* ------------------------------------------------------ the environment heals
\* safe_main has neither reached the REPL nor used up its startup attempts
StillRunning ==
    /\ pc # "repl"
    /\ ~(pc = "safe_main" /\ retry_count >= max_retries)

\* From some point on the link and the broker accept connections and every
\* sensor sample is valid.  A session made before may be dead by then.  The
\* behaviour is followed for RecoveryTime seconds from that point.
EnvironmentRecovers ==
    /\ ~env_good
    /\ StillRunning
    /\ ~shutdown_requested
    /\ env_good' = TRUE
    /\ delivered' = FALSE
    /\ elapsed' = 0
    /\ horizon' = RecoveryTime
    /\ mqtt' \in {mqtt} \cup (IF mqtt = "connected" THEN {"unconnected"} ELSE {})
    /\ UNCHANGED <<pc, clock, retry_count, shutdown_requested, last_publish,
                   last_wifi_check, consecutive_failures, last_restart_time,
                   current_time, wait_time, cw, wdt_armed, self_wdt, wdt_present,
                   platform, calc, fault>>
    /\ UNCHANGED <<init_ok, sensor_fail_run, wifi_fail_run, pub_fail_run, trigger,
                   exit_kind, since_forced, since_sent, cyc, last_pub, run_stats,
                   since_feed, shutdown_log, exit_at, ran>>

\* ---------------------------------------------------------------- the system
Next ==
    \/ BootPy
    \/ MainApplication
    \/ RecoveryMode
    \/ ConnectWifiAttempt
    \/ ConnectWifiPoll
    \/ InitAfterWifi
    \/ HandOver
    \/ StopSeen
    \/ LoopTop
    \/ CheckWifiReturn
    \/ ReadSensor
    \/ FirstPublish
    \/ RebuildSession
    \/ RetryPublish
    \/ CycleSleep
    \/ CooldownSleep
    \/ MachineReset
    \/ StopRequest
    \/ KeyboardInterruptInLoop
    \/ KeyboardInterruptInInit
    \/ LoopException
    \/ ExceptionRestart
    \/ KeyboardInterruptInDelay
    \/ KeyboardInterruptInRetryDelay
    \/ InitException

Spec == Init /\ [][Next]_vars

\* ----------------------------------------------------------------- startup
\* The program from power-on to the hand-over to monitor_loop, on a board with
\* or without the hardware timer, followed for MaxStartupTime seconds.
StartupInit ==
    /\ Power
    /\ wdt_present \in BOOLEAN
    /\ env_good = FALSE
    /\ delivered = FALSE
    /\ platform = ReferencePlatform
    /\ calc = NoCalc
    /\ horizon = MaxStartupTime

NextStartup ==
    \/ BootPy
    \/ MainApplication
    \/ RecoveryMode
    \/ ConnectWifiAttempt
    \/ ConnectWifiPoll
    \/ InitAfterWifi
    \/ HandOver
    \/ KeyboardInterruptInInit
    \/ InitException
    \/ WatchdogResetInRepl

SpecStartup == StartupInit /\ [][NextStartup]_vars

\* ------------------------------------------------------------ the timer
\* The program left to itself (no interrupt, no stop request, no exception
\* inside the loop), followed for MaxWatchTime seconds.
WatchInit ==
    /\ Power
    /\ wdt_present = TRUE
    /\ env_good = FALSE
    /\ delivered = FALSE
    /\ platform = ReferencePlatform
    /\ calc = NoCalc
    /\ horizon = MaxWatchTime

NextWatch ==
    \/ BootPy
    \/ MainApplication
    \/ RecoveryMode
    \/ ConnectWifiAttempt
    \/ ConnectWifiPoll
    \/ InitAfterWifi
    \/ HandOver
    \/ LoopTop
    \/ CheckWifiReturn
    \/ ReadSensor
    \/ FirstPublish
    \/ RebuildSession
    \/ RetryPublish
    \/ CycleSleep
    \/ CooldownSleep
    \/ MachineReset
    \/ InitException

SpecWatch == WatchInit /\ [][NextWatch]_vars

\* ----------------------------------------------------------------- recovery
\* The program in an environment that fails at will for at most MaxOutage
\* seconds and may then heal for good.  The loop is scheduled fairly.
RecoveryInit ==
    /\ Power
    /\ wdt_present = TRUE
    /\ env_good = FALSE
    /\ delivered = FALSE
    /\ platform = ReferencePlatform
    /\ calc = NoCalc
    /\ horizon = MaxOutage

NextRecovery ==
    \/ Next
    \/ EnvironmentRecovers

SpecRecovery == RecoveryInit /\ [][NextRecovery]_vars /\ WF_vars(NextRecovery)

\* ------------------------------------------------------------------ faults
\* The program left to itself on any platform: modules missing or present,
\* any value of the 'ssl' key, a board with or without the hardware timer, a
\* timer whose feed() works or raises.  Followed for MaxFaultTime seconds.
FaultInit ==
    /\ Power
    /\ wdt_present \in BOOLEAN
    /\ platform \in Platforms
    /\ ~wdt_present => platform.wdt_feed_ok
    /\ env_good = FALSE
    /\ delivered = FALSE
    /\ calc = NoCalc
    /\ horizon = MaxFaultTime

NextFault ==
    \/ BootPy
    \/ MainApplication
    \/ RecoveryMode
    \/ ConnectWifiAttempt
    \/ ConnectWifiPoll
    \/ InitAfterWifi
    \/ HandOver
    \/ LoopTop
    \/ CheckWifiReturn
    \/ ReadSensor
    \/ FirstPublish
    \/ RebuildSession
    \/ RetryPublish
    \/ CycleSleep
    \/ CooldownSleep
    \/ MachineReset

SpecFault == FaultInit /\ [][NextFault]_vars


\* ------------------------------------------------------- tank_profiles.py
\* Depths (inches) and volumes (gallons) are fixed-point numbers, 1524 units
\* to the inch and to the gallon: 60 units are one millimetre (25.4 mm to the
\* inch), and half an inch holds a whole number of units that 2 and 3 divide,
\* so that every quotient taken below is exact on the depths drawn.
Fix(n) == n * 1524

\* the no-result value of the lookup functions
None == -1

\* TANK_275_VERTICAL_OVAL: the lookup table of the repository
TANK_275_VERTICAL_OVAL ==
    [capacity_gallons |-> 275,
     height_inches |-> 44,
     depth_inches |-> [i \in 1..44 |-> i],
     gallons |-> <<2, 5, 9, 14, 19, 25, 31, 37, 44, 51,
                   58, 65, 72, 80, 87, 94, 101, 108, 115, 123,
                   130, 137, 144, 151, 158, 166, 173, 180, 187, 194,
                   201, 209, 216, 223, 230, 236, 243, 249, 254, 260,
                   265, 269, 272, 275>>]

\* Two more tables of the same shape: one with a control point at depth 0 and
\* uneven spacing, one whose volume does not grow over an interval.
TankFromZero ==
    [capacity_gallons |-> 40, height_inches |-> 5,
     depth_inches |-> <<0, 2, 5>>, gallons |-> <<0, 10, 40>>]

TankWithFlat ==
    [capacity_gallons |-> 30, height_inches |-> 6,
     depth_inches |-> <<1, 2, 4, 6>>, gallons |-> <<5, 5, 20, 30>>]

\* TANK_PROFILES, with the two other tables
ProfileNames == {"275_vertical_oval", "from_zero", "with_flat"}

get_tank_profile(profile_name) ==
    CASE profile_name = "275_vertical_oval" -> TANK_275_VERTICAL_OVAL
      [] profile_name = "from_zero" -> TankFromZero
      [] profile_name = "with_flat" -> TankWithFlat

\* (variant: the lower control point's value over the whole interval)
linear_interpolate_step(x, x0, x1, y0, y1) == y0

\* linear_interpolate
linear_interpolate(x, x0, x1, y0, y1) ==
    IF x1 = x0 THEN y0
    ELSE y0 + ((x - x0) * (y1 - y0)) \div (x1 - x0)

\* the intervals of a table xs that bracket x, in table order
Bracketing(x, xs) ==
    {i \in 1..(Len(xs) - 1) : x >= Fix(xs[i]) /\ x <= Fix(xs[i + 1])}

\* the first of them: where the for loop returns
FirstOf(S) == CHOOSE i \in S : \A j \in S : i <= j

\* the loop of depth_to_gallons and gallons_to_depth over the table xs, with
\* values ys: interpolate in the first bracketing interval, else no result
Lookup(x, xs, ys) ==
    IF Bracketing(x, xs) = {} THEN None
    ELSE LET i == FirstOf(Bracketing(x, xs))
         IN  linear_interpolate(x, Fix(xs[i]), Fix(xs[i + 1]), Fix(ys[i]), Fix(ys[i + 1]))

\* (variant: no saturation above the last control point)
depth_to_gallons_unsaturated(depth_inches, tank_profile) ==
    IF depth_inches <= 0 THEN 0
    ELSE Lookup(depth_inches, tank_profile.depth_inches, tank_profile.gallons)

\* depth_to_gallons
depth_to_gallons(depth_inches, tank_profile) ==
    LET depth_table == tank_profile.depth_inches
        gallons_table == tank_profile.gallons
    IN  IF depth_inches <= 0 THEN 0
        ELSE IF depth_inches >= Fix(depth_table[Len(depth_table)])
             THEN Fix(gallons_table[Len(gallons_table)])
        ELSE Lookup(depth_inches, depth_table, gallons_table)

\* (variant: the depth of the control point below, no interpolation)
gallons_to_depth_floor(gallons, tank_profile) ==
    LET depth_table == tank_profile.depth_inches
        gallons_table == tank_profile.gallons
    IN  IF gallons <= 0 THEN 0
        ELSE IF gallons >= Fix(gallons_table[Len(gallons_table)])
             THEN Fix(depth_table[Len(depth_table)])
        ELSE IF Bracketing(gallons, gallons_table) = {} THEN None
        ELSE Fix(depth_table[FirstOf(Bracketing(gallons, gallons_table))])

\* gallons_to_depth
gallons_to_depth(gallons, tank_profile) ==
    LET depth_table == tank_profile.depth_inches
        gallons_table == tank_profile.gallons
    IN  IF gallons <= 0 THEN 0
        ELSE IF gallons >= Fix(gallons_table[Len(gallons_table)])
             THEN Fix(depth_table[Len(depth_table)])
        ELSE Lookup(gallons, gallons_table, depth_table)

\* The depths drawn: every half inch from one inch below the bottom to
\* MaxDepth inches.
DepthGrid == {h * (Fix(1) \div 2) : h \in (-2)..(2 * MaxDepth)}

\* One pair of depths and a table are drawn; depth_to_gallons is applied to
\* both depths, then gallons_to_depth to the first volume.
VolumeInit ==
    /\ Power
    /\ wdt_present = TRUE
    /\ env_good = FALSE
    /\ delivered = FALSE
    /\ platform = ReferencePlatform
    /\ horizon = 0
    /\ calc \in [op : {"args"}, profile : ProfileNames, d1 : DepthGrid, d2 : DepthGrid,
                 v1 : {None}, v2 : {None}, back : {None}]

DepthToGallonsCall ==
    /\ calc.op = "args"
    /\ calc' = [calc EXCEPT !.op = "depth_to_gallons",
                            !.v1 = depth_to_gallons(calc.d1, get_tank_profile(calc.profile)),
                            !.v2 = depth_to_gallons(calc.d2, get_tank_profile(calc.profile))]
    /\ UNCHANGED <<prog_vars, env_vars, hist_vars>>

\* (a volume of None is not passed on: the comparison in gallons_to_depth
\* would raise)
GallonsToDepthCall ==
    /\ calc.op = "depth_to_gallons"
    /\ calc.v1 # None
    /\ calc' = [calc EXCEPT !.op = "gallons_to_depth",
                            !.back = gallons_to_depth(calc.v1, get_tank_profile(calc.profile))]
    /\ UNCHANGED <<prog_vars, env_vars, hist_vars>>

NextVolume ==
    \/ DepthToGallonsCall
    \/ GallonsToDepthCall

SpecVolume == VolumeInit /\ [][NextVolume]_vars


\* ---------------------------------------------------------- read_tank_level
\* get_tank_config of the reference installation: the 44 inch tank, the
\* defaults for calibration_offset and empty_level
TankConfig == [height |-> Fix(44), calibration_offset |-> 0, empty_level |-> 0]

\* read_tank_level returned None
NoReading == [present |-> FALSE]

Max(a, b) == IF a >= b THEN a ELSE b

\* (variant: a sample of SENSOR_MIN_READING_MM passes)
InWindowClosed(distance_mm) ==
    distance_mm >= SENSOR_MIN_READING_MM /\ distance_mm <= SENSOR_MAX_READING_MM

\* the window check of read_tank_level, passed
InWindow(distance_mm) ==
    ~(distance_mm <= SENSOR_MIN_READING_MM \/ distance_mm > SENSOR_MAX_READING_MM)

\* distance_mm / MM_TO_INCHES: 25.4 mm to the inch
ToInches(distance_mm) == (distance_mm * Fix(10)) \div 254

\* the depth before it is constrained: tank_height - distance_inches +
\* calibration_offset
RawDepth(distance_mm, tank_config) ==
    tank_config.height - ToInches(distance_mm) + tank_config.calibration_offset

\* max(empty_level, min(liquid_depth, tank_height))
Constrain(liquid_depth, tank_config) ==
    Max(tank_config.empty_level, Min(liquid_depth, tank_config.height))

\* read_tank_level on one sample of the sensor (sampled = FALSE: sensor.read()
\* returned None) under a tank configuration, with the reference table
\* (profiled) or in linear mode (self.tank_profile is None).  A volume of None
\* makes the percentage raise TypeError, which the except clause turns into
\* None.  Percentages are fixed-point too, Fix(100) for 100 %; the tank height
\* is a whole number of inches.
ReadTankLevel(sampled, distance_mm, tank_config, profiled) ==
    IF ~sampled THEN NoReading
    ELSE IF ~InWindow(distance_mm) THEN NoReading
    ELSE LET liquid_depth == Constrain(RawDepth(distance_mm, tank_config), tank_config)
             gallons == IF profiled
                        THEN depth_to_gallons(liquid_depth, TANK_275_VERTICAL_OVAL)
                        ELSE None
             tank_capacity == TANK_275_VERTICAL_OVAL.capacity_gallons
             tank_height == tank_config.height \div Fix(1)
         IN  IF profiled /\ gallons = None THEN NoReading
             ELSE [present |-> TRUE, distance_mm |-> distance_mm,
                   level_inches |-> liquid_depth,
                   level_percentage |->
                       IF profiled THEN (gallons * 100) \div tank_capacity
                       ELSE (liquid_depth * 100) \div tank_height,
                   gallons |-> gallons]

\* read_tank_level on the reference installation
read_tank_level(sampled, distance_mm) ==
    ReadTankLevel(sampled, distance_mm, TankConfig, TRUE)

\* One sample is drawn; read_tank_level is applied to it, then monitor_loop
\* decides on the publish (taken to be due, with a session that sends or not).
SensorInit ==
    /\ Power
    /\ wdt_present = TRUE
    /\ env_good = FALSE
    /\ delivered = FALSE
    /\ platform = ReferencePlatform
    /\ horizon = 0
    /\ calc \in [op : {"sample"}, sampled : {TRUE}, distance_mm : (-1)..MaxSample,
                 reading : {NoReading}, published : {FALSE}]
                \cup [op : {"sample"}, sampled : {FALSE}, distance_mm : {0},
                      reading : {NoReading}, published : {FALSE}]

ReadTankLevelCall ==
    /\ calc.op = "sample"
    /\ calc' = [calc EXCEPT !.op = "read_tank_level",
                            !.reading = read_tank_level(calc.sampled, calc.distance_mm)]
    /\ UNCHANGED <<prog_vars, env_vars, hist_vars>>

\* 'if reading:' and publish_data(reading): nothing is sent without a Reading
PublishDataCall ==
    /\ calc.op = "read_tank_level"
    /\ \E sent \in BOOLEAN :
         calc' = [calc EXCEPT !.op = "publish_data",
                              !.published = (calc.reading.present /\ sent)]
    /\ UNCHANGED <<prog_vars, env_vars, hist_vars>>

NextSensor ==
    \/ ReadTankLevelCall
    \/ PublishDataCall

SpecSensor == SensorInit /\ [][NextSensor]_vars

\* ----------------------------------------------- readings, any configuration
\* The tank configurations drawn: what _validate_config accepts is a positive
\* height; calibration_offset and empty_level are not looked at.
TankConfigs ==
    [height : {Fix(20), Fix(44)},
     calibration_offset : {0 - Fix(2), 0, Fix(3)},
     empty_level : {0 - Fix(1), 0, Fix(2), Fix(24)}]

\* The samples drawn: the ends of the window and every fifth inch (127 mm).
ReadingSamples ==
    {1, SENSOR_MAX_READING_MM} \cup {m \in 1..SENSOR_MAX_READING_MM : m % 127 = 0}

\* One sample, a tank configuration and the mode are drawn; read_tank_level is
\* applied, and monitor_loop logs the Reading and, the publish being due,
\* hands it to publish_data.
ReadingInit ==
    /\ Power
    /\ wdt_present = TRUE
    /\ env_good = FALSE
    /\ delivered = FALSE
    /\ platform = ReferencePlatform
    /\ horizon = 0
    /\ calc \in [op : {"sample"}, distance_mm : ReadingSamples, tank_config : TankConfigs,
                 profiled : BOOLEAN, reading : {NoReading}, logged : {FALSE},
                 published : {FALSE}]

ReadTankLevelConfigured ==
    /\ calc.op = "sample"
    /\ calc' = [calc EXCEPT !.op = "read_tank_level",
                            !.reading = ReadTankLevel(TRUE, calc.distance_mm,
                                                      calc.tank_config, calc.profiled)]
    /\ UNCHANGED <<prog_vars, env_vars, hist_vars>>

LogAndPublish ==
    /\ calc.op = "read_tank_level"
    /\ \E sent \in BOOLEAN :
         calc' = [calc EXCEPT !.op = "publish_data",
                              !.logged = calc.reading.present,
                              !.published = (calc.reading.present /\ sent)]
    /\ UNCHANGED <<prog_vars, env_vars, hist_vars>>

NextReading ==
    \/ ReadTankLevelConfigured
    \/ LogAndPublish

SpecReading == ReadingInit /\ [][NextReading]_vars

\* ----------------------------------------------------------- calibrate_empty
RECURSIVE Sum(_)
Sum(seq) == IF seq = <<>> THEN 0 ELSE Head(seq) + Sum(Tail(seq))

IsValidDistance(distance) == distance > 0

\* calibrate_empty over the measurements taken (0: sensor.read() returned None
\* or a distance that is not positive), with the offset stored before: too few
\* valid ones and it gives up; otherwise the offset is tank_height minus the
\* average distance in inches, which update_calibration_offset puts into the
\* configuration in memory before it saves the file (saved: the file was
\* written).
calibrate_empty(measured, num_readings, tank_config, saved) ==
    LET readings == SelectSeq(measured, IsValidDistance)
    IN  IF Len(readings) < num_readings \div 2
        THEN [ok |-> FALSE, calibration_offset |-> tank_config.calibration_offset]
        ELSE [ok |-> saved,
              calibration_offset |->
                  tank_config.height - (Sum(readings) * (Fix(10) \div 254)) \div Len(readings)]

\* The distances from the sensor to the bottom of the empty tank that are
\* drawn, in mm: 40 and 50 inches.
EmptyDistances == {1016, 1270}

\* The empty tank is measured NumReadings times (each measurement is the
\* distance to the bottom, or invalid), calibrate_empty is applied, and the
\* tank is then read with liquid_mm of liquid in it (every fifth inch).
CalibrateInit ==
    /\ Power
    /\ wdt_present = TRUE
    /\ env_good = FALSE
    /\ delivered = FALSE
    /\ platform = ReferencePlatform
    /\ horizon = 0
    /\ \E bottom \in EmptyDistances :
         calc \in [op : {"empty"}, bottom_mm : {bottom},
                   measured : [1..NumReadings -> {0, bottom}],
                   liquid_mm : {127 * j : j \in 0..8},
                   tank_config : [height : {Fix(40), Fix(44)}, calibration_offset : {0, Fix(1)},
                                  empty_level : {0}],
                   saved : BOOLEAN, ok : {FALSE}, raw_depth : {0}]

CalibrateEmptyCall ==
    /\ calc.op = "empty"
    /\ LET result == calibrate_empty(calc.measured, NumReadings, calc.tank_config, calc.saved)
       IN  calc' = [calc EXCEPT !.op = "calibrate_empty",
                                !.ok = result.ok,
                                !.tank_config.calibration_offset = result.calibration_offset]
    /\ UNCHANGED <<prog_vars, env_vars, hist_vars>>

\* read_tank_level after a successful calibration, up to the unconstrained depth
ReadCalibrated ==
    /\ calc.op = "calibrate_empty"
    /\ calc.ok
    /\ calc' = [calc EXCEPT !.op = "read_tank_level",
                            !.raw_depth = RawDepth(calc.bottom_mm - calc.liquid_mm,
                                                   calc.tank_config)]
    /\ UNCHANGED <<prog_vars, env_vars, hist_vars>>

NextCalibrate ==
    \/ CalibrateEmptyCall
    \/ ReadCalibrated

SpecCalibrate == CalibrateInit /\ [][NextCalibrate]_vars

\* ======================================================================
\* Properties
\* ======================================================================

\* a forced restart is under way: the cooldown wait, or the reset itself
Restarting == pc \in {"cooldown", "do_reset"}

\* C1: a forced restart raised on the sensor path has 10 failed sensor reads in
\* a row behind it (9 never trigger one, a successful read starts the count
\* again), and 10 failed sensor reads in a row do trigger one.
C1_SensorCeiling ==
    /\ (Restarting /\ trigger = "sensor") => sensor_fail_run >= MAX_CONSECUTIVE_FAILURES
    /\ sensor_fail_run >= MAX_CONSECUTIVE_FAILURES => Restarting

\* C2: a forced restart is issued no sooner than RESTART_COOLDOWN_SEC after
\* the previous forced restart (the cooldown wait makes up the remainder).
C2_RestartsSpaced ==
    pc = "do_reset" => (since_forced < 0 \/ since_forced >= RESTART_COOLDOWN_SEC)

\* C3: the count tested against the ceiling is never below the number of
\* failed health checks in a row, whatever the sensor reads in between did, so
\* that the 10th failed health check in a row finds it at the ceiling.
C3_ConnectivityCountKept ==
    wifi_fail_run <= consecutive_failures

\* C4: the count of the sensor path counts failed sensor reads only: a failed
\* health check never advances it.
C4_SensorCountIndependent ==
    consecutive_failures = sensor_fail_run

\* C5: 10 cycles in a row whose due publish ultimately failed trigger a forced
\* restart.
C5_PublishFailuresEscalate ==
    pub_fail_run >= MAX_CONSECUTIVE_FAILURES => Restarting

\* C6 (as stated): once the ceiling is reached, the program is in the cooldown
\* wait or at the reset; nothing else follows.
C6_RestartUnconditional ==
    trigger # "none" => Restarting

\* C6 (amended): once the ceiling is reached the program is in the cooldown
\* wait (of at most RESTART_COOLDOWN_SEC) or at the reset, unless a user
\* interrupt during the cooldown wait ended the loop through shutdown.
C6_RestartUnlessInterrupted ==
    /\ trigger # "none" =>
          \/ Restarting
          \/ pc = "repl" /\ exit_kind = "interrupt"
    /\ pc = "cooldown" => wait_time \in 1..RESTART_COOLDOWN_SEC

\* the cooldown wait is over and the reset is about to be issued
C6_Witness ==
    pc = "do_reset" /\ trigger # "none" /\ wait_time > 0

\* C7: the first cycle starts only after hardware setup, link, session and
\* announcement all succeeded.
C7_RunningOnlyAfterInit ==
    (pc = "loop" /\ init_ok.hardware) =>
        (init_ok.link /\ init_ok.session /\ init_ok.announce)

C9_DeliveriesSpaced ==
    last_pub.result => (last_pub.sent_gap < 0 \/ last_pub.sent_gap >= publish_interval)

\* the number of sensor reads per publish window
ReadsPerWindow == publish_interval \div measurement_interval

\* C9 (amended): the loop times stored in last_publish by two successful
\* publishes are at least publish_interval apart; and while every operation
\* succeeds, a Reading is delivered at every sixth read, never later.
C9_Cadence ==
    /\ last_pub.result => last_pub.stamp_gap >= publish_interval
    /\ run_stats.all_ok =>
          /\ run_stats.reads_since_sent <= ReadsPerWindow
          /\ run_stats.gap_reads \in {0, ReadsPerWindow}

\* an all-success run delivered a Reading six reads after the previous one
C9_Witness ==
    run_stats.all_ok /\ run_stats.gap_reads = ReadsPerWindow /\ last_pub.result

\* the events of a cycle from its first call of publish_data on
RECURSIVE PubPhase(_)
PubPhase(c) ==
    IF c = <<>> THEN <<>>
    ELSE IF Head(c) \in {"pub_ok", "pub_fail", "pub_noattempt"} THEN c
    ELSE PubPhase(Tail(c))

FirstFailed == {"pub_fail", "pub_noattempt"}

AllowedPubPhases ==
    {<<>>, <<"pub_ok">>}
    \cup {<<f>> : f \in FirstFailed}
    \cup {<<f, r>> : f \in FirstFailed, r \in {"rebuild_ok", "rebuild_fail"}}
    \cup {<<f, "rebuild_ok", p>> : f \in FirstFailed, p \in {"pub_ok", "pub_fail"}}

\* C10: in one cycle the publish branch is: one call of publish_data; after a
\* failure one session rebuild; after a successful rebuild one retry; nothing
\* more.  So at most two publish attempts and one rebuild.
C10_AtMostOneRetry ==
    PubPhase(cyc) \in AllowedPubPhases

\* a cycle whose first attempt failed, whose rebuild succeeded and whose retry delivered
C10_Witness ==
    PubPhase(cyc) = <<"pub_fail", "rebuild_ok", "pub_ok">>

\* the program is in Initializing or Running
Supervised == pc \notin {"boot", "repl", "exc_wait"}

C13_EveryPollAcknowledges ==
    (pc = "cw_wait" /\ wdt_armed /\ cw.timeout < WIFI_ATTEMPT_TIMEOUT) => since_feed = 0

\* how many steps of the kinds in S the shutdown record holds
Steps(S) == Cardinality({i \in DOMAIN shutdown_log : shutdown_log[i] \in S})

\* the offline publish, gone out or raised
OfflineAttempt == {"offline_ok", "offline_fail"}

\* C14, for the first path it names: when monitor_loop has ended because the
\* stop flag was seen at the top of a cycle, the shutdown sequence has run
\* exactly once and the offline publish has been attempted exactly once.
C14_ShutdownOnceOnStop ==
    (pc = "repl" /\ exit_kind = "stop") =>
        /\ Steps({"shutdown"}) = 1
        /\ Steps(OfflineAttempt) = 1

\* C15, its second half: a shutdown whose offline publish failed has closed
\* the broker session and torn down the link all the same.
C15_CloseAfterFailedOffline ==
    Steps({"offline_fail"}) > 0 =>
        /\ Steps({"session_close"}) > 0
        /\ Steps({"link_down"}) > 0

CycleComplete == {"loop", "sleep", "cooldown"}

ResetPending == Restarting \/ pc = "exc_wait"

\* C18 (as stated): whenever the program is about to reset the device, the
\* cycle under way was not abandoned before its operations were over.
C18_NoCycleAbandoned ==
    ResetPending => exit_at = "none"

\* C18 (amended): a forced restart (ceiling reached) is issued only where the
\* cycle would otherwise go to its sleep: no link establishment is under way,
\* publish_data has not been called, and the failure of this cycle has been
\* counted; the reset of the exception handler follows a cycle that the
\* exception cut short, after the shutdown sequence.
C18_ForcedRestartAtCycleEnd ==
    /\ Restarting =>
          /\ exit_at = "none"
          /\ cw = NoFrame
          /\ PubPhase(cyc) = <<>>
          /\ trigger \in {"sensor", "wifi"}
          /\ consecutive_failures >= MAX_CONSECUTIVE_FAILURES
    /\ pc = "exc_wait" =>
          /\ exit_at \in {"top_of_cycle", "cw_wait"}
          /\ Steps({"shutdown"}) = 1

\* the reset of a forced restart is next, the ceiling reached on the sensor path
C18_Witness ==
    /\ pc = "do_reset"
    /\ trigger = "sensor"
    /\ consecutive_failures = MAX_CONSECUTIVE_FAILURES
    /\ exit_at = "none"

C20_NoResetBeforeFirstCycle ==
    [][(pc # "boot" /\ pc' = "boot" /\ exit_kind # "interrupt_init") => ran]_vars

\* ---------------------------------------------------------- startup faults
\* the faults the program treats as fatal at startup: the sensor is not on the
\* bus, the configuration is refused (transport security switched off), the
\* sensor driver or the MQTT library is missing
FatalFaults == {"sensor", "config", "driver", "library"}

\* C21: after a fatal startup fault the application is not started
\* again: no further attempt is made, none is counted.
C21_NoRestartAfterFault ==
    [][(fault \in FatalFaults) => (pc' # "cw_attempt" /\ retry_count' = retry_count)]_vars

\* C22: when the ssl module cannot be loaded the program stops at session
\* establishment: it never enters a cycle of monitor_loop (and so never tries
\* to establish the session again).
C22_MissingSslStopsProgram ==
    ~platform.ssl_module => ~ran

\* C23: no broker session without transport encryption: whenever a client is
\* connected, it was created with ssl = True (the configuration asks for
\* transport security, by its 'ssl' key or by default) and the ssl module was
\* loaded; this for every configuration that passes validation.
C23_SessionsEncrypted ==
    mqtt = "connected" => (SslEnabled(platform.cfg_ssl) /\ platform.ssl_module)

\* a session is open under a configuration without the 'ssl' key
C23_Witness ==
    mqtt = "connected" /\ platform.cfg_ssl = "absent" /\ ran

\* C24: a watchdog that is missing or whose acknowledgement raises a hardware
\* error never keeps the program from starting: where every module is present
\* and the configuration is valid, no startup attempt is abandoned on account
\* of the timer.
C24_WatchdogNeverStopsStartup ==
    (platform.sensor_driver /\ platform.mqtt_library /\ ValidateConfig(platform.cfg_ssl))
        => fault # "watchdog"

\* ------------------------------------------------------------ volume engine
\* the call of depth_to_gallons has returned
Converted == calc.op \in {"depth_to_gallons", "gallons_to_depth"}

\* the last control point's depth of the table drawn
LastDepth == LET t == get_tank_profile(calc.profile).depth_inches IN Fix(t[Len(t)])

\* the last control point's volume of the table drawn
LastVolume == LET t == get_tank_profile(calc.profile).gallons IN Fix(t[Len(t)])

\* C26: on the reference table every depth above 0 and below the last control
\* point, the depths below the first control point included, is given a
\* volume: depth_to_gallons never returns None there.
C26_VolumeForEveryDepth ==
    (Converted /\ calc.profile = "275_vertical_oval" /\ calc.d1 > 0 /\ calc.d1 < LastDepth)
        => calc.v1 # None

\* a table is well formed: strictly increasing depths, non-decreasing volumes
WellFormed(tank_profile) ==
    LET ds == tank_profile.depth_inches
        gs == tank_profile.gallons
    IN  /\ Len(ds) = Len(gs) /\ Len(ds) >= 2
        /\ \A i \in 1..(Len(ds) - 1) : ds[i] < ds[i + 1] /\ gs[i] <= gs[i + 1]

\* C27: depth_to_gallons is monotone: for depths d1 <= d2 within [0, height]
\* of a well-formed table both volumes exist and the first is at most the
\* second.
C27_Monotone ==
    (/\ Converted
     /\ WellFormed(get_tank_profile(calc.profile))
     /\ 0 <= calc.d1 /\ calc.d1 <= calc.d2
     /\ calc.d2 <= Fix(get_tank_profile(calc.profile).height_inches))
        => (calc.v1 # None /\ calc.v2 # None /\ calc.v1 <= calc.v2)

\* the largest volume of the table drawn
MaxVolume ==
    LET t == get_tank_profile(calc.profile).gallons
    IN  Fix(CHOOSE g \in {t[i] : i \in 1..Len(t)} : \A j \in 1..Len(t) : t[j] <= g)

\* C28: saturation, never extrapolation: on a well-formed table a depth of 0
\* or less gives 0 and a depth at or above the last control point gives the
\* largest volume of the table, which is the capacity (reference table: 0 gives
\* 0, 44 and 50 give 275).
C28_Saturation ==
    (Converted /\ WellFormed(get_tank_profile(calc.profile))) =>
        /\ calc.d1 <= 0 => calc.v1 = 0
        /\ calc.d1 >= LastDepth =>
              /\ calc.v1 = MaxVolume
              /\ calc.v1 = Fix(get_tank_profile(calc.profile).capacity_gallons)
        /\ (calc.profile = "275_vertical_oval" /\ calc.d1 \in {Fix(44), Fix(50)}) =>
              calc.v1 = Fix(275)

\* the overflow case of the reference table: 50 inches give 275 gallons, and
\* 0 inches give 0
C28_Witness ==
    /\ Converted /\ calc.profile = "275_vertical_oval"
    /\ calc.d1 = Fix(50) /\ calc.v1 = Fix(275)
    /\ calc.d2 = 0 /\ calc.v2 = 0

\* half an inch, half a gallon
Half == Fix(1) \div 2

\* C29: within every interval [d_i, d_i+1] of adjacent control points that
\* holds the depth d, depth_to_gallons returns v_i + (d - d_i) * (v_i+1 - v_i)
\* / (d_i+1 - d_i) (stated here multiplied by d_i+1 - d_i); so a table depth
\* d_i gives exactly v_i (reference table: 1 gives 2, 10 gives 51, 22 gives
\* 137, 44 gives 275) and the midpoint of an interval gives the mean of its
\* two volumes (22.5 gives 140.5).
C29_Interpolation ==
    Converted =>
        LET ds == get_tank_profile(calc.profile).depth_inches
            gs == get_tank_profile(calc.profile).gallons
        IN  /\ \A i \in 1..(Len(ds) - 1) :
                 (Fix(ds[i]) <= calc.d1 /\ calc.d1 <= Fix(ds[i + 1])) =>
                     calc.v1 * (Fix(ds[i + 1]) - Fix(ds[i])) =
                         Fix(gs[i]) * (Fix(ds[i + 1]) - Fix(ds[i]))
                         + (calc.d1 - Fix(ds[i])) * (Fix(gs[i + 1]) - Fix(gs[i]))
            /\ \A i \in 1..Len(ds) : calc.d1 = Fix(ds[i]) => calc.v1 = Fix(gs[i])
            /\ \A i \in 1..(Len(ds) - 1) :
                 2 * calc.d1 = Fix(ds[i]) + Fix(ds[i + 1]) =>
                     2 * calc.v1 = Fix(gs[i]) + Fix(gs[i + 1])
            /\ calc.profile = "275_vertical_oval" =>
                 /\ calc.d1 = Fix(1) => calc.v1 = Fix(2)
                 /\ calc.d1 = Fix(10) => calc.v1 = Fix(51)
                 /\ calc.d1 = Fix(22) => calc.v1 = Fix(137)
                 /\ calc.d1 = Fix(44) => calc.v1 = Fix(275)
                 /\ calc.d1 = Fix(22) + Half => calc.v1 = Fix(140) + Half

\* 22.5 inches on the reference table: 140.5 gallons; and a control point, 10
\* inches: 51 gallons
C29_Witness ==
    /\ Converted /\ calc.profile = "275_vertical_oval"
    /\ calc.d1 = Fix(22) + Half /\ calc.v1 = Fix(140) + Half
    /\ calc.d2 = Fix(10) /\ calc.v2 = Fix(51)

\* the round trip has been made: gallons_to_depth has returned
RoundTripMade == calc.op = "gallons_to_depth"

\* the intervals of the table drawn that hold the depth d strictly inside
Inside(d) ==
    LET ds == get_tank_profile(calc.profile).depth_inches
    IN  {i \in 1..(Len(ds) - 1) : Fix(ds[i]) < d /\ d < Fix(ds[i + 1])}

SampleRead == calc.op \in {"read_tank_level", "publish_data"}

\* the sample is absent, or not above SENSOR_MIN_READING_MM, or above
\* SENSOR_MAX_READING_MM
OutOfWindow ==
    \/ ~calc.sampled
    \/ calc.distance_mm <= SENSOR_MIN_READING_MM
    \/ calc.distance_mm > SENSOR_MAX_READING_MM

\* C25: an absent sample, a sample of 0 mm and a sample above 8000 mm give no
\* Reading; a sample of exactly 8000 mm is valid and becomes one; and a sample
\* outside the window is never published.
C25_SampleWindow ==
    SampleRead =>
        /\ OutOfWindow => calc.reading = NoReading
        /\ (calc.sampled /\ calc.distance_mm = SENSOR_MAX_READING_MM) =>
              (calc.reading.present /\ calc.reading.distance_mm = SENSOR_MAX_READING_MM)
        /\ OutOfWindow => ~calc.published

\* a sample of 8001 mm has gone through the read and the publish decision
C25_Witness ==
    /\ calc.op = "publish_data"
    /\ calc.sampled /\ calc.distance_mm = SENSOR_MAX_READING_MM + 1
    /\ calc.reading = NoReading /\ ~calc.published

\* ------------------------------------------------- readings: depth, percentage
\* C31: for every valid sample and any calibration offset, negative ones
\* included, the depth of the Reading is at least empty_level and at most the
\* tank height.
C31_DepthWithinTank ==
    (calc.op \in {"read_tank_level", "publish_data"} /\ calc.reading.present) =>
        /\ calc.reading.level_inches >= calc.tank_config.empty_level
        /\ calc.reading.level_inches <= calc.tank_config.height

\* C32: every Reading that is logged or published carries a percentage from 0
\* to 100, with the table (volume / capacity) and in linear mode (depth /
\* height), for every configuration that is accepted and every valid sample.
C32_PercentageInRange ==
    (calc.op = "publish_data" /\ calc.logged) =>
        /\ calc.reading.level_percentage >= 0
        /\ calc.reading.level_percentage <= Fix(100)

\* C38: a sample within (0, 8000] mm always yields a Reading (so that the cycle
\* is not counted as a sensor failure).
C38_ValidSampleGivesReading ==
    (SampleRead /\ calc.sampled
        /\ calc.distance_mm > SENSOR_MIN_READING_MM
        /\ calc.distance_mm <= SENSOR_MAX_READING_MM)
        => calc.reading.present

\* ---------------------------------------------------------------- calibration
\* C39: after calibrate_empty succeeded on the empty tank, whose bottom is at
\* the average distance D, a sample at distance D - x gives the depth x before
\* clamping (0 for the empty tank).
C39_CalibratedDepth ==
    calc.op = "read_tank_level" => calc.raw_depth = ToInches(calc.liquid_mm)

\* ------------------------------------------------------------- health check
\* check_wifi_connection was called in this step
HealthCheckCalled == pc = "loop" /\ pc' \in {"read", "cw_wait"}

\* C33: a call of check_wifi_connection made less than wifi_check seconds
\* after the previous evaluation returns success without querying the link or
\* reconnecting and leaves last_wifi_check alone; a call made later sets
\* last_wifi_check to the current time, whether the link is up or down; and
\* last_wifi_check changes in no other way while the monitor object lives.
C33_CheckCadence ==
    [][/\ HealthCheckCalled =>
            IF clock - last_wifi_check < wifi_check_interval
            THEN pc' = "read" /\ last_wifi_check' = last_wifi_check /\ cw' = cw /\ mqtt' = mqtt
            ELSE last_wifi_check' = clock
       /\ (last_wifi_check' # last_wifi_check /\ last_wifi_check' # 0) =>
            (HealthCheckCalled /\ clock - last_wifi_check >= wifi_check_interval)]_vars

\* a call skipped the evaluation after an earlier call had made it
C33_Witness ==
    /\ pc = "read"
    /\ cyc = <<>>
    /\ last_wifi_check > 0
    /\ clock > last_wifi_check

Rebuilds == {"rebuild_ok", "rebuild_fail"}

\* the health check of this cycle found the link down and connect_wifi has
\* brought it back
Reconnected == pc = "cw_done" /\ cw.caller = "check" /\ cw.result

\* the last session rebuild among the first n events of a cycle (0: none)
LastRebuild(events, n) ==
    LET R == {i \in 1..n : events[i] \in Rebuilds}
    IN  IF R = {} THEN 0 ELSE CHOOSE i \in R : \A k \in R : k <= i

\* C34: connect_wifi called by the health check has a budget of 2 attempts;
\* when it has brought the link back, init_mqtt is called at once, before the
\* sensor is read and before any publish attempt of the cycle, and the session
\* that was there before is gone: from then on a publish is delivered only
\* through the session that a successful rebuild has made.
C34_RebuildBeforePublish ==
    [][/\ (cw'.caller = "check") =>
            (cw'.budget = CHECK_WIFI_RETRIES /\ cw'.attempt <= CHECK_WIFI_RETRIES)
       /\ (Reconnected /\ pc' \in {"read", "publish", "retry", "sleep"}) =>
            /\ pc' = "read"
            /\ cyc = <<>>
            /\ cyc' \in {<<r>> : r \in Rebuilds}
            /\ (mqtt' = "connected") <=> (cyc' = <<"rebuild_ok">>)
       /\ \A j \in 1..Len(cyc') :
            (cyc'[j] = "pub_ok" /\ LastRebuild(cyc', j) # 0)
                => cyc'[LastRebuild(cyc', j)] = "rebuild_ok"]_vars

\* the link came back, the rebuild of the health check failed, and the publish
\* of the cycle was delivered after a second rebuild
C34_Witness ==
    /\ Len(cyc) = 4
    /\ cyc[1] = "rebuild_fail"
    /\ cyc[4] = "pub_ok"

\* ------------------------------------------------------------- connect_wifi
\* connect_wifi returns in this step
ConnectWifiReturns == pc \in {"cw_attempt", "cw_wait"} /\ pc' = "cw_done"

\* wifi.connect() is called in this step
ConnectRequested == pc # "cw_wait" /\ pc' = "cw_wait"

CheckFailed == pc = "cw_done" /\ cw.caller = "check" /\ ~cw.result

\* the sample of this cycle is taken in this step and gives no Reading
InvalidSample == pc = "read" /\ consecutive_failures' = consecutive_failures + 1

PublishBranch == {"publish", "rebuild", "retry"}

\* The sensor is read only after the health check of the same cycle has
\* passed, and once: the read leaves for the publish branch, the sleep or the
\* restart, and the next read comes after the next health check.
OneReadAfterCheck ==
    /\ (pc # "read" /\ pc' = "read") => (pc = "loop" \/ Reconnected)
    /\ (pc = "read") => pc' # "read"
    /\ CheckFailed => pc' \notin ({"read"} \cup PublishBranch)

\* C36: every cycle makes the health check before the sensor read, one read
\* when the check passes and none when it fails; a cycle whose sample is
\* invalid makes no publish and goes on, through the sleep, to the next cycle.
C36_OneReadPerCycle ==
    [][/\ OneReadAfterCheck
       /\ InvalidSample => (cyc' = cyc /\ last_publish' = last_publish /\ pc' = "sleep")]_vars

\* C36 as the code has it: the cycle whose invalid sample is the tenth failure
\* in a row does not go on to the next cycle, it goes to the forced restart.
C36_OneReadPerCycleOrRestart ==
    [][/\ OneReadAfterCheck
       /\ InvalidSample =>
            /\ cyc' = cyc
            /\ last_publish' = last_publish
            /\ IF consecutive_failures' >= MAX_CONSECUTIVE_FAILURES
               THEN pc' \in {"cooldown", "do_reset"}
               ELSE pc' = "sleep"]_vars

\* a cycle with an invalid sample has reached its sleep without a publish, in
\* a run whose health check has evaluated the link
C36_Witness ==
    /\ pc = "sleep"
    /\ cyc = <<>>
    /\ sensor_fail_run > 0
    /\ last_wifi_check > 0

\* ------------------------------------------------------------- last_publish
\* the positions of a run of monitor_loop between two forced restarts
InCycle(p) == p \in {"loop", "read", "publish", "rebuild", "retry", "sleep", "cw_wait", "cw_done"}

\* a call of publish_data or the rebuild between two calls fails in this step
PublishFails ==
    /\ pc \in PublishBranch
    /\ Len(cyc') = Len(cyc) + 1
    /\ cyc'[Len(cyc')] # "pub_ok"
    /\ (pc = "rebuild") => cyc'[Len(cyc')] = "rebuild_fail"

\* a call of publish_data succeeds in this step
PublishSucceeds ==
    /\ pc \in {"publish", "retry"}
    /\ Len(cyc') = Len(cyc) + 1
    /\ cyc'[Len(cyc')] = "pub_ok"

\* the sensor read of this step gives a Reading
ReadingTaken == pc = "read" /\ pc' \in {"publish", "sleep"} /\ consecutive_failures' = 0

\* C37: a failed publish, a failed rebuild and a failed retry leave
\* last_publish as it was and the publish due; while the monitor runs,
\* last_publish changes only in a successful publish; a publish that is due
\* stays due until one succeeds; and a cycle whose sensor read gives a Reading
\* while the publish is due attempts it.
C37_FailedPublishStaysDue ==
    [][/\ PublishFails =>
            (last_publish' = last_publish /\ clock' - last_publish' >= publish_interval)
       /\ (InCycle(pc) /\ InCycle(pc') /\ last_publish' # last_publish) =>
            (PublishSucceeds /\ last_publish' = current_time)
       /\ (InCycle(pc) /\ InCycle(pc') /\ ~PublishSucceeds
             /\ clock - last_publish >= publish_interval) =>
            clock' - last_publish' >= publish_interval
       /\ (ReadingTaken /\ clock - last_publish >= publish_interval) => pc' = "publish"]_vars

\* the publish failed in one cycle and is attempted again in a later one
C37_Witness ==
    /\ pc = "publish"
    /\ pub_fail_run > 0

\* ---------------------------------------------------------------- safe_main
\* main_application is called in this step
RunStarts == pc = "safe_main" /\ (pc' \in {"cw_attempt", "safe_main"} \/ retry_count' # retry_count)

\* a run of the application fails in this step
RunFails == pc \in {"safe_main", "cw_wait"} /\ retry_count' = retry_count + 1

\* the user interrupts the wait after a failed run
InterruptedInRetryDelay == pc = "safe_main" /\ pc' = "repl" /\ retry_count' # retry_count

\* recovery_mode is entered in this step
RecoveryEntered == pc # "repl" /\ pc' = "repl" /\ exit_kind' = "recovery"

\* The retry loop: at most three runs, each failed run followed by the wait of
\* 10 s and the next pass of the loop unless the user interrupts the wait;
\* after the third failed run the next pass enters recovery mode; a run that
\* ended normally or was interrupted leaves for the REPL without it.
StartupLoop ==
    /\ retry_count' \in 0..3
    /\ RunStarts => retry_count < 3
    /\ (RunFails /\ ~InterruptedInRetryDelay) =>
         (pc' = "safe_main" /\ clock' = clock + RETRY_DELAY_SEC)
    /\ (pc = "safe_main" /\ retry_count = 3) => RecoveryEntered
    /\ RecoveryEntered => retry_count' = 3
    /\ (pc # "repl" /\ pc' = "repl" /\ pc \notin {"safe_main"}) =>
         (exit_kind' \in {"stop", "interrupt", "interrupt_init", "interrupt_delay"}
            /\ retry_count' < 3)

\* C40: safe_main runs the application at most 3 times, waits 10 s after each
\* failed run and tries again, enters recovery mode exactly when the third run
\* has failed, and stops without recovery mode when a run ends normally or the
\* user interrupts.
C40_StartupLoopEnds ==
    [][StartupLoop /\ (InterruptedInRetryDelay => ~RecoveryEntered)]_vars

====
